---- MODULE Spec2Model ----
(***************************************************************************)
(* Model of the staging-then-merge upsert of src/db.py (write_to_db and    *)
(* the DDL/DML primitives it is built from), run against a relational      *)
(* engine with transactional DDL and a connection opened without           *)
(* autocommit.  One call at a time is in progress; calls follow each       *)
(* other on the same database.                                             *)
(***************************************************************************)
EXTENDS Integers, Sequences, FiniteSets, Bags, TLC

(***************************************************************************)
(* Bounds of the model.                                                    *)
(***************************************************************************)
\* largest non-NULL cell value
MaxVal == 1
\* largest number of rows of a dataset
MaxRows == 2
\* number of write_to_db calls in one behaviour
MaxCalls == 2

(***************************************************************************)
(* Values, rows, datasets, tables.                                         *)
(***************************************************************************)
\* SQL NULL: what None is sent as (db.py:198-199 put None in the cells)
NULL == 0

Vals == {NULL} \cup (1 .. MaxVal)

\* the column sets a caller's DataFrame may have (already sanitized names)
ColSets == {{"id"}, {"id", "v"}}

\* primary-key lists callers pass: a single key, and the key of all columns
KeySets == {{"id"}, {"id", "v"}}

RowsOver(cols) == [cols -> Vals]

\* a DataFrame: its columns and its rows in order
Datasets ==
    UNION {{[cols |-> cs, rows |-> rs] :
              rs \in UNION {[1 .. n -> RowsOver(cs)] : n \in 0 .. MaxRows}} :
           cs \in ColSets}

\* a table of the database: absent, or a column set and a multiset of rows
NoTable == [exists |-> FALSE, cols |-> {}, rows |-> EmptyBag]

\* the database as one connection sees it: the staging and the target table
\* of one table_name (db.py:196-197)
EmptyDb == [staging |-> NoTable, target |-> NoTable]

RECURSIVE SeqToBag(_)
\* the multiset of the elements of a sequence
SeqToBag(s) ==
    IF s = <<>> THEN EmptyBag
    ELSE SetToBag({s[1]}) (+) SeqToBag(Tail(s))

RECURSIVE SumOver(_, _)
\* the sum of f[x] over the finite set S
SumOver(S, f) ==
    IF S = {} THEN 0
    ELSE LET x == CHOOSE y \in S : TRUE
         IN  f[x] + SumOver(S \ {x}, f)

\* the bag in which every element x of bag B is replaced by F[x]
MapBag(F, B) ==
    LET img == {F[x] : x \in BagToSet(B)}
    IN  [r \in img |-> SumOver({x \in BagToSet(B) : F[x] = r}, B)]

(***************************************************************************)
(* The statements write_to_db submits, as functions on table values.  A    *)
(* statement yields [ok, tab]: whether the engine accepted it and the      *)
(* table it leaves.                                                        *)
(***************************************************************************)
Ok(t) == [ok |-> TRUE, tab |-> t]

Err(t) == [ok |-> FALSE, tab |-> t]

Fresh(cols) == [exists |-> TRUE, cols |-> cols, rows |-> EmptyBag]

\* IF OBJECT_ID(name,'U') IS NOT NULL DROP TABLE name
DropTable(t) == Ok(NoTable)

\* as CreateTable, with the target re-created like the staging table
CreateTableAlways(t, cols, staging) == Ok(Fresh(cols))

\* create_table's CREATE statement: for the staging table a plain CREATE
\* TABLE (an error when the table exists), for the target a CREATE guarded
\* by IF OBJECT_ID(name,'U') IS NULL, which leaves an existing table as is
CreateTable(t, cols, staging) ==
    IF ~t.exists THEN Ok(Fresh(cols))
    ELSE IF staging THEN Err(t)
    ELSE Ok(t)

\* as ExecuteMany, with the first row of the batch left out
ExecuteManyButFirst(t, cols, rows) ==
    IF rows = <<>> \/ ~t.exists \/ ~(cols \subseteq t.cols) THEN Err(t)
    ELSE Ok([t EXCEPT !.rows = @ (+) SeqToBag(Tail(rows))])

\* cursor.executemany(INSERT INTO staging (cols) VALUES (?,..), rows): the
\* driver rejects an empty parameter list; every row is added, columns of
\* the table that the statement does not name are NULL
ExecuteMany(t, cols, rows) ==
    IF rows = <<>> \/ ~t.exists \/ ~(cols \subseteq t.cols) THEN Err(t)
    ELSE LET widen == [r \in {rows[i] : i \in DOMAIN rows} |->
                         [c \in t.cols |-> IF c \in cols THEN r[c] ELSE NULL]]
         IN  Ok([t EXCEPT !.rows = @ (+) SeqToBag([i \in DOMAIN rows |-> widen[rows[i]]])])

\* the ON condition  target.k = source.k AND ...  : a comparison with NULL
\* is never true
OnCondition(t, s, pks) ==
    \A k \in pks : t[k] # NULL /\ s[k] # NULL /\ t[k] = s[k]

\* number of source rows (with multiplicity) that join target row t
Matches(t, src, pks) ==
    SumOver({s \in BagToSet(src) : OnCondition(t, s, pks)}, src)

\* as Merge, without the WHEN MATCHED branch: every source row is inserted
MergeInsertOnly(target, staging, pks, cols) ==
    IF \/ ~target.exists \/ ~staging.exists
       \/ pks = {} \/ cols \ pks = {}
       \/ ~(cols \subseteq target.cols) \/ ~(cols \subseteq staging.cols)
    THEN Err(target)
    ELSE LET ins == [s \in BagToSet(staging.rows) |->
                       [c \in target.cols |-> IF c \in cols THEN s[c] ELSE NULL]]
         IN  Ok([target EXCEPT !.rows = @ (+) MapBag(ins, staging.rows)])

\* the MERGE statement of write_to_db (the same text merge_from_staging
\* builds): an empty key list or an empty UPDATE SET list is a syntax error,
\* a column the target lacks is a compile error, a target row joined by
\* more than one source row is a run-time error; otherwise every joined
\* target row takes the source's non-key columns and every source row that
\* joins no target row is inserted
Merge(target, staging, pks, cols) ==
    IF \/ ~target.exists \/ ~staging.exists
       \/ pks = {} \/ cols \ pks = {}
       \/ ~(cols \subseteq target.cols) \/ ~(cols \subseteq staging.cols)
    THEN Err(target)
    ELSE IF \E t \in BagToSet(target.rows) : Matches(t, staging.rows, pks) > 1
    THEN Err(target)
    ELSE LET src == BagToSet(staging.rows)
             upd == [t \in BagToSet(target.rows) |->
                       IF \E s \in src : OnCondition(t, s, pks)
                       THEN LET s == CHOOSE x \in src : OnCondition(t, x, pks)
                            IN  [c \in target.cols |->
                                   IF c \in cols \ pks THEN s[c] ELSE t[c]]
                       ELSE t]
             new == {s \in src : \A t \in BagToSet(target.rows) :
                                    ~OnCondition(t, s, pks)}
             ins == [s \in new |->
                       [c \in target.cols |-> IF c \in cols THEN s[c] ELSE NULL]]
             newBag == [s \in new |-> staging.rows[s]]
         IN  Ok([target EXCEPT !.rows = MapBag(upd, target.rows)
                                          (+) MapBag(ins, newBag)])

(***************************************************************************)
(* State.                                                                  *)
(***************************************************************************)
VARIABLES
    db,      \* the committed database: what every later connection sees
    tx,      \* the database as the call's connection sees it (uncommitted)
    pc,      \* where write_to_db stands; "idle" between calls
    ds,      \* the call's DataFrame (sanitized columns, None for missing)
    pks,     \* the call's primary_keys
    state,   \* the orchestrator state the call has reached
    conn,    \* the call's connection: "none", "open" or "closed"
    cur,     \* the call's cursor: "none", "open" or "closed"
    stmts,   \* the statements the call has submitted to the engine, in order
    failed,  \* the first step of the call that raised, "none" so far
    db0,     \* the committed database when the call started
    calls,   \* number of calls started
    lastOk,  \* the inputs of the previous call when it returned normally
    rep      \* the call repeats the inputs of the call before it, which
             \* returned normally

\* bulk_insert_to_staging(df, conn, staging_table_name), called on its own
VARIABLES
    bpc,      \* where bulk_insert_to_staging stands; "idle" outside a call
    bdata,    \* data: the rows of df, in order
    bbad,     \* the (1-based) positions of the rows the engine rejects
    bi,       \* the (1-based) position of the fallback loop in data
    btried,   \* the positions inserted one at a time, in order of attempt
    blog,     \* what the function has logged, in order
    bstaged,  \* rows inserted in the connection's open transaction
    bsaved,   \* rows of the staging table that a commit has made durable
    bout,     \* how the call ended: "none", "returned" or "raised"
    bops,     \* the calls made on the connection and its cursor, in order
    berr      \* the call whose error the except clause caught: "none",
              \* "executemany" or "commit"; the bare raise re-raises it

wvars == <<db, tx, pc, ds, pks, state, conn, cur, stmts, failed, db0, calls,
           lastOk, rep>>

bvars == <<bpc, bdata, bbad, bi, btried, blog, bstaged, bsaved, bout, bops,
           berr>>

\* two write_to_db calls for the same table_name, each on its own connection,
\* running at the same time
VARIABLES
    cdb,      \* the committed database
    cpc,      \* where each call stands
    cds,      \* each call's DataFrame
    cpks,     \* each call's primary_keys
    clock,    \* the tables each connection has changed and not yet committed:
              \* the engine keeps them locked until the transaction ends
    cw,       \* each connection's uncommitted version of the tables it locks
    cfailed,  \* the first step of each call that raised, "none" so far
    cintr,    \* since the call committed its bulk load, the other call has
              \* committed a change of the staging table
    csrc      \* the staging rows each call's MERGE has read

cvars == <<cdb, cpc, cds, cpks, clock, cw, cfailed, cintr, csrc>>

\* a call of wrap_column
VARIABLES
    wpc,      \* "idle", "called" or "returned"
    wcol,     \* the argument col, a sequence of characters
    wret      \* the value returned

svars == <<wpc, wcol, wret>>

\* the DataFrame of a write_to_db call on its way to the engine
VARIABLES
    ppc,      \* the next step of the call
    pin,      \* the DataFrame as the caller passed it
    pdf,      \* the caller's DataFrame object as it is now
    ploc,     \* the DataFrame bound to the local name df
    pddl,     \* the column definitions of the CREATE TABLE statements
    psent,    \* the rows handed to executemany
    pout      \* "none", "returned" or "raised"

pvars == <<ppc, pin, pdf, ploc, pddl, psent, pout>>

\* what the actions of write_to_db, of bulk_insert_to_staging, of the
\* concurrent calls, of wrap_column and of the preparation leave alone
others == <<bvars, cvars, svars, pvars>>

nonBulk == <<wvars, cvars, svars, pvars>>

nonConc == <<wvars, bvars, svars, pvars>>

nonWrap == <<wvars, bvars, cvars, pvars>>

nonPrep == <<wvars, bvars, cvars, svars>>

vars == <<wvars, bvars, cvars, svars, pvars>>

NoDataset == [cols |-> {}, rows |-> <<>>]

NoCall == [ds |-> NoDataset, pks |-> {}]

\* the statements of the try block, db.py:201-223
TrySteps == {"drop_staging", "create_staging", "create_target", "insert",
             "commit1", "merge", "commit2"}

\* as OnOk, with the final commit right after the bulk load
OnOkSkipMerge(p) ==
    CASE p = "connect"        -> "prepare"
      [] p = "prepare"        -> "drop_staging"
      [] p = "drop_staging"   -> "create_staging"
      [] p = "create_staging" -> "create_target"
      [] p = "create_target"  -> "insert"
      [] p = "insert"         -> "commit2"
      [] p = "commit1"        -> "merge"
      [] p = "merge"          -> "commit2"
      [] p = "commit2"        -> "cursor_close"
      [] p = "except"         -> "cursor_close"
      [] p = "cursor_close"   -> "conn_close"
      [] p = "conn_close"     -> "done"

\* as OnOk, with one commit only: the merge right after the bulk load
OnOkOneCommit(p) ==
    CASE p = "connect"        -> "prepare"
      [] p = "prepare"        -> "drop_staging"
      [] p = "drop_staging"   -> "create_staging"
      [] p = "create_staging" -> "create_target"
      [] p = "create_target"  -> "insert"
      [] p = "insert"         -> "merge"
      [] p = "commit1"        -> "merge"
      [] p = "merge"          -> "commit2"
      [] p = "commit2"        -> "cursor_close"
      [] p = "except"         -> "cursor_close"
      [] p = "cursor_close"   -> "conn_close"
      [] p = "conn_close"     -> "done"

\* where control goes when the step at p completes: the statement order of
\* write_to_db, then the finally block
OnOk(p) ==
    CASE p = "connect"        -> "prepare"
      [] p = "prepare"        -> "drop_staging"
      [] p = "drop_staging"   -> "create_staging"
      [] p = "create_staging" -> "create_target"
      [] p = "create_target"  -> "insert"
      [] p = "insert"         -> "commit1"
      [] p = "commit1"        -> "merge"
      [] p = "merge"          -> "commit2"
      [] p = "commit2"        -> "cursor_close"
      [] p = "except"         -> "cursor_close"
      [] p = "cursor_close"   -> "conn_close"
      [] p = "conn_close"     -> "done"

\* as OnFail, without the except clause: try/finally only
OnFailNoExcept(p) ==
    IF p \in TrySteps \/ p = "except" THEN "cursor_close"
    ELSE "done"

\* where control goes when the step at p raises: inside the try block to the
\* except clause, from the except clause (a failed rollback) to the finally
\* block, everywhere else out of the function
OnFail(p) ==
    IF p \in TrySteps THEN "except"
    ELSE IF p = "except" THEN "cursor_close"
    ELSE "done"

\* the orchestrator state reached when the step at p has succeeded
StateAfter(p, st) ==
    CASE p = "create_staging" -> "STAGING_ENSURED"
      [] p = "create_target"  -> "TARGET_ENSURED"
      [] p = "insert"         -> "BULK_LOADED"
      [] p = "merge"          -> "MERGED"
      [] p = "commit2"        -> "COMMITTED"
      [] p = "except"         -> "ROLLED_BACK"
      [] OTHER                -> st

\* an exception is propagating out of the call (or has left it)
exc == failed # "none"

\* the step at p raises: the exception that propagates is the first one
Raise(p) == failed' = IF failed = "none" THEN p ELSE failed

\* what write_to_db has logged: logger.info after the final commit
\* (db.py:225), logger.error after a rollback that succeeded (db.py:229)
Logged ==
    IF state = "COMMITTED" THEN <<[kind |-> "merged", idx |-> 0, row |-> <<>>]>>
    ELSE IF state = "ROLLED_BACK"
    THEN <<[kind |-> "error_occurred", idx |-> 0, row |-> <<>>]>>
    ELSE <<>>

\* as Autocommit, for a connection opened with autocommit=True
AutocommitOn == TRUE

\* pyodbc.connect(conn_str) is called without autocommit=True
Autocommit == FALSE

\* what a statement that left the connection's view at t commits by itself
Persist(d, t) == IF Autocommit THEN t ELSE d

\* no call of bulk_insert_to_staging is in progress
BulkIdle ==
    /\ bpc = "idle"
    /\ bdata = <<>>
    /\ bbad = {}
    /\ bi = 0
    /\ btried = <<>>
    /\ blog = <<>>
    /\ bstaged = <<>>
    /\ bsaved = <<>>
    /\ bout = "none"
    /\ bops = <<>>
    /\ berr = "none"

\* the two concurrent calls: none has started
Procs == {1, 2}

ConcIdle ==
    /\ cdb = EmptyDb
    /\ cpc = [p \in Procs |-> "idle"]
    /\ cds = [p \in Procs |-> NoDataset]
    /\ cpks = [p \in Procs |-> {}]
    /\ clock = [p \in Procs |-> {}]
    /\ cw = [p \in Procs |-> EmptyDb]
    /\ cfailed = [p \in Procs |-> "none"]
    /\ cintr = [p \in Procs |-> FALSE]
    /\ csrc = [p \in Procs |-> EmptyBag]

\* no call of wrap_column is in progress
WrapIdle ==
    /\ wpc = "idle"
    /\ wcol = <<>>
    /\ wret = <<>>

\* a DataFrame: the names and dtypes of its columns, and for each column
\* its cells by row
NoFrame == [names |-> <<>>, dtypes |-> <<>>, cells |-> <<>>]

\* no preparation is in progress
PrepIdle ==
    /\ ppc = "idle"
    /\ pin = NoFrame
    /\ pdf = NoFrame
    /\ ploc = NoFrame
    /\ pddl = <<>>
    /\ psent = <<>>
    /\ pout = "none"

Init ==
    /\ db = EmptyDb
    /\ tx = EmptyDb
    /\ pc = "idle"
    /\ ds = NoDataset
    /\ pks = {}
    /\ state = "INIT"
    /\ conn = "none"
    /\ cur = "none"
    /\ stmts = <<>>
    /\ failed = "none"
    /\ db0 = EmptyDb
    /\ calls = 0
    /\ lastOk = NoCall
    /\ rep = FALSE
    /\ BulkIdle
    /\ ConcIdle
    /\ WrapIdle
    /\ PrepIdle

(***************************************************************************)
(* write_to_db, one action per step.  The engine may reject any statement  *)
(* (connectivity, permissions, a constraint), so every step that talks to  *)
(* it has a failing outcome besides the one its inputs decide.             *)
(***************************************************************************)
\* write_to_db(df, table_name, primary_keys) is called
Call(d, k) ==
    /\ pc = "idle"
    /\ calls < MaxCalls
    /\ k \subseteq d.cols
    /\ pc' = "connect"
    /\ ds' = d
    /\ pks' = k
    /\ state' = "INIT"
    /\ conn' = "none"
    /\ cur' = "none"
    /\ stmts' = <<>>
    /\ failed' = "none"
    /\ db0' = db
    /\ tx' = db
    /\ calls' = calls + 1
    /\ rep' = (lastOk = [ds |-> d, pks |-> k])
    /\ UNCHANGED <<db, lastOk>>
    /\ UNCHANGED others

\* get_connection(): pyodbc.connect, then conn.cursor(); either may raise
Connect ==
    /\ pc = "connect"
    /\ \/ /\ conn' = "open"
          /\ cur' = "open"
          /\ pc' = OnOk("connect")
          /\ failed' = failed
       \/ /\ conn' \in {"none", "open"}
          /\ cur' = "none"
          /\ pc' = OnFail("connect")
          /\ Raise("connect")
    /\ UNCHANGED <<db, tx, ds, pks, state, stmts, db0, calls, lastOk, rep>>
    /\ UNCHANGED others

\* column sanitization and the two replace() calls, before the try block
Prepare ==
    /\ pc = "prepare"
    /\ \/ pc' = OnOk("prepare") /\ failed' = failed
       \/ pc' = OnFail("prepare") /\ Raise("prepare")
    /\ UNCHANGED <<db, tx, ds, pks, state, conn, cur, stmts, db0, calls, lastOk, rep>>
    /\ UNCHANGED others

\* a statement of the try block: kind is what the engine is sent, res the
\* [ok, tab] it yields on table tbl of the connection's view
Execute(p, kind, tbl, res) ==
    /\ pc = p
    /\ stmts' = Append(stmts, kind)
    /\ \E accepted \in BOOLEAN :
         IF accepted /\ res.ok
         THEN /\ tx' = [tx EXCEPT ![tbl] = res.tab]
              /\ db' = Persist(db, tx')
              /\ pc' = OnOk(p)
              /\ state' = StateAfter(p, state)
              /\ failed' = failed
         ELSE /\ pc' = OnFail(p)
              /\ Raise(p)
              /\ UNCHANGED <<tx, db, state>>
    /\ UNCHANGED <<ds, pks, conn, cur, db0, calls, lastOk, rep>>
    /\ UNCHANGED others

\* create_table(..., staging=True), first statement
DropStaging ==
    Execute("drop_staging", "drop_staging", "staging", DropTable(tx.staging))

\* create_table(..., staging=True), second statement
CreateStaging ==
    Execute("create_staging", "create_staging", "staging",
            CreateTable(tx.staging, ds.cols, TRUE))

\* create_table(..., staging=False)
CreateTarget ==
    Execute("create_target", "create_target", "target",
            CreateTable(tx.target, ds.cols, FALSE))

\* cursor.executemany(bulk_insert_query, df.to_numpy().tolist())
Insert ==
    Execute("insert", "insert", "staging",
            ExecuteMany(tx.staging, ds.cols, ds.rows))

\* cursor.execute(merge_query)
DoMerge ==
    Execute("merge", "merge", "target",
            Merge(tx.target, tx.staging, pks, ds.cols))

\* conn.commit(), after the bulk load (p = "commit1") and after the merge
\* (p = "commit2")
Commit(p) ==
    /\ pc = p
    /\ p \in {"commit1", "commit2"}
    /\ stmts' = Append(stmts, "commit")
    /\ \/ /\ db' = tx
          /\ pc' = OnOk(p)
          /\ state' = StateAfter(p, state)
          /\ failed' = failed
       \/ /\ pc' = OnFail(p)
          /\ Raise(p)
          /\ UNCHANGED <<db, state>>
    /\ UNCHANGED <<tx, ds, pks, conn, cur, db0, calls, lastOk, rep>>
    /\ UNCHANGED others

\* except Exception: conn.rollback(); logger.error; raise
Except ==
    /\ pc = "except"
    /\ stmts' = Append(stmts, "rollback")
    /\ \/ /\ tx' = db
          /\ state' = StateAfter("except", state)
          /\ pc' = OnOk("except")
       \/ /\ pc' = OnFail("except")
          /\ UNCHANGED <<tx, state>>
    /\ UNCHANGED <<db, failed, ds, pks, conn, cur, db0, calls, lastOk, rep>>
    /\ UNCHANGED others

\* finally: cursor.close(); when it raises, conn.close() is not reached
CursorClose ==
    /\ pc = "cursor_close"
    /\ \/ cur' = "closed" /\ pc' = OnOk("cursor_close") /\ failed' = failed
       \/ cur' = cur /\ pc' = OnFail("cursor_close") /\ Raise("cursor_close")
    /\ UNCHANGED <<db, tx, ds, pks, state, conn, stmts, db0, calls, lastOk, rep>>
    /\ UNCHANGED others

\* finally: conn.close(); closing discards what the connection did not
\* commit
ConnClose ==
    /\ pc = "conn_close"
    /\ conn' = "closed"
    /\ tx' = db
    /\ pc' = OnOk("conn_close")
    /\ UNCHANGED <<db, ds, pks, state, cur, stmts, failed, db0, calls, lastOk, rep>>
    /\ UNCHANGED others

\* the call is over (it returned, or raised when exc); the caller goes on
Return ==
    /\ pc = "done"
    /\ pc' = "idle"
    /\ lastOk' = IF exc THEN NoCall ELSE [ds |-> ds, pks |-> pks]
    /\ ds' = NoDataset
    /\ pks' = {}
    /\ state' = "INIT"
    /\ conn' = "none"
    /\ cur' = "none"
    /\ stmts' = <<>>
    /\ failed' = "none"
    /\ rep' = FALSE
    /\ tx' = db
    /\ db0' = db
    /\ UNCHANGED <<db, calls>>
    /\ UNCHANGED others

Next ==
    \/ \E d \in Datasets, k \in KeySets : Call(d, k)
    \/ Connect
    \/ Prepare
    \/ DropStaging
    \/ CreateStaging
    \/ CreateTarget
    \/ Insert
    \/ Commit("commit1")
    \/ DoMerge
    \/ Commit("commit2")
    \/ Except
    \/ CursorClose
    \/ ConnClose
    \/ Return

Spec == Init /\ [][Next]_vars

(***************************************************************************)
(* bulk_insert_to_staging (db.py:94-115), called on an open connection     *)
(* whose staging table exists.  write_to_db does not call it.              *)
(***************************************************************************)
\* the log line of the except clause, db.py:108
BulkFailedEntry == [kind |-> "bulk_failed", idx |-> 0, row |-> <<>>]

\* the log line of the fallback loop, db.py:113: enumerate counts from 0
RowErrorEntry(i, row) == [kind |-> "row_error", idx |-> i - 1, row |-> row]

\* the first position of data the engine rejects, Len(data) + 1 when none
FirstBad(data, bad) ==
    IF bad = {} THEN Len(data) + 1
    ELSE CHOOSE i \in bad : \A j \in bad : i <= j

\* as AfterRowError, with continue in place of break
AfterRowErrorContinue(i) == [pc |-> "row", i |-> i + 1]

\* where the fallback loop goes after the row at position i raised: break,
\* then the bare raise of db.py:115
AfterRowError(i) == [pc |-> "raise", i |-> i]

\* bulk_insert_to_staging(df, conn, staging_table_name) is called (until a
\* batch has been committed)
BulkCall(rows, bad) ==
    /\ bpc = "idle"
    /\ bsaved = <<>>
    /\ bad \subseteq DOMAIN rows
    /\ bpc' = "batch"
    /\ bdata' = rows
    /\ bbad' = bad
    /\ bi' = 0
    /\ btried' = <<>>
    /\ blog' = <<>>
    /\ bstaged' = <<>>
    /\ bout' = "none"
    /\ bops' = <<>>
    /\ berr' = "none"
    /\ UNCHANGED <<bsaved, nonBulk>>

\* cursor.executemany(insert_query, data): it raises when the list is empty
\* or a row is rejected, and may raise for other reasons; the rows before
\* the rejected one may or may not stay inserted
BulkExecuteMany ==
    /\ bpc = "batch"
    /\ \/ /\ bdata # <<>> /\ bbad = {}
          /\ bstaged' = bstaged \o bdata
          /\ bpc' = "commit"
          /\ UNCHANGED <<blog, bi, berr>>
       \/ /\ \E n \in 0 .. (FirstBad(bdata, bbad) - 1) :
                 bstaged' = bstaged \o SubSeq(bdata, 1, n)
          /\ blog' = Append(blog, BulkFailedEntry)
          /\ bi' = 1
          /\ bpc' = "row"
          /\ berr' = "executemany"
    /\ bops' = Append(bops, "executemany")
    /\ UNCHANGED <<bdata, bbad, btried, bsaved, bout, nonBulk>>

\* conn.commit() inside the try: when it raises, the except clause runs too
BulkCommit ==
    /\ bpc = "commit"
    /\ \/ /\ bsaved' = bsaved \o bstaged
          /\ bstaged' = <<>>
          /\ bpc' = "done"
          /\ bout' = "returned"
          /\ UNCHANGED <<blog, bi, berr>>
       \/ /\ blog' = Append(blog, BulkFailedEntry)
          /\ bi' = 1
          /\ bpc' = "row"
          /\ berr' = "commit"
          /\ UNCHANGED <<bsaved, bstaged, bout>>
    /\ bops' = Append(bops, "commit")
    /\ UNCHANGED <<bdata, bbad, btried, nonBulk>>

\* one round of the fallback loop: cursor.execute(insert_query, row)
BulkRow ==
    /\ bpc = "row"
    /\ bi <= Len(bdata)
    /\ btried' = Append(btried, bi)
    /\ IF bi \in bbad
       THEN /\ blog' = Append(blog, RowErrorEntry(bi, bdata[bi]))
            /\ bpc' = AfterRowError(bi).pc
            /\ bi' = AfterRowError(bi).i
            /\ UNCHANGED bstaged
       ELSE /\ bstaged' = Append(bstaged, bdata[bi])
            /\ bi' = bi + 1
            /\ UNCHANGED <<blog, bpc>>
    /\ bops' = Append(bops, "execute")
    /\ UNCHANGED <<bdata, bbad, bsaved, bout, berr, nonBulk>>

\* as FallbackEnd, with the fallback as a retry: commit and return
FallbackEndRetry(ops) ==
    [pc |-> "done", out |-> "returned", ops |-> Append(ops, "commit"),
     commit |-> TRUE]

\* what follows a fallback loop in which every row was inserted: nothing
\* but the bare raise of db.py:115
FallbackEnd(ops) ==
    [pc |-> "raise", out |-> "none", ops |-> ops, commit |-> FALSE]

\* the fallback loop has run through data
BulkLoopEnd ==
    /\ bpc = "row"
    /\ bi > Len(bdata)
    /\ bpc' = FallbackEnd(bops).pc
    /\ bout' = FallbackEnd(bops).out
    /\ bops' = FallbackEnd(bops).ops
    /\ bsaved' = IF FallbackEnd(bops).commit THEN bsaved \o bstaged ELSE bsaved
    /\ bstaged' = IF FallbackEnd(bops).commit THEN <<>> ELSE bstaged
    /\ UNCHANGED <<bdata, bbad, bi, btried, blog, berr, nonBulk>>

\* raise, db.py:115: the error of the try block reaches the caller
BulkRaise ==
    /\ bpc = "raise"
    /\ bpc' = "done"
    /\ bout' = "raised"
    /\ UNCHANGED <<bdata, bbad, bi, btried, blog, bstaged, bsaved, bops, berr,
                   nonBulk>>

\* the caller goes on: its connection is closed without a commit
BulkReturn ==
    /\ bpc = "done"
    /\ bpc' = "idle"
    /\ bstaged' = <<>>
    /\ UNCHANGED <<bdata, bbad, bi, btried, blog, bsaved, bout, bops, berr,
                   nonBulk>>

BulkNext ==
    \/ \E d \in Datasets, bad \in SUBSET (1 .. MaxRows) :
           BulkCall(d.rows, bad)
    \/ BulkExecuteMany
    \/ BulkCommit
    \/ BulkRow
    \/ BulkLoopEnd
    \/ BulkRaise
    \/ BulkReturn

SpecBulk == Init /\ [][BulkNext]_vars

(***************************************************************************)
(* Two write_to_db calls for the same table_name at the same time.  Each   *)
(* has its own connection; both use risk.<table_name>_staging (db.py:196). *)
(* The code takes no lock of its own.  What the engine does is modelled    *)
(* coarsely: a table a transaction has changed is locked until that        *)
(* transaction commits or rolls back, and a statement that touches a table *)
(* locked by the other connection waits.                                   *)
(***************************************************************************)
Tables == {"staging", "target"}

\* the database as the connection of call p sees it
View(p) == [t \in Tables |-> IF t \in clock[p] THEN cw[p][t] ELSE cdb[t]]

\* no other connection holds a lock on one of the tables tbls
Free(p, tbls) == \A q \in Procs \ {p} : clock[q] \cap tbls = {}

\* call p enters its try block: get_connection and the preparation of the
\* DataFrame do not touch the tables
CCall(p, d, k) ==
    /\ cpc[p] = "idle"
    /\ k \subseteq d.cols
    /\ cpc' = [cpc EXCEPT ![p] = OnOk("prepare")]
    /\ cds' = [cds EXCEPT ![p] = d]
    /\ cpks' = [cpks EXCEPT ![p] = k]
    /\ UNCHANGED <<cdb, clock, cw, cfailed, cintr, csrc, nonConc>>

\* a statement of the try block of call p on table tbl, reading tables reads
CExecute(p, step, tbl, reads, res) ==
    /\ cpc[p] = step
    /\ Free(p, reads \cup {tbl})
    /\ \E accepted \in BOOLEAN :
         IF accepted /\ res.ok
         THEN /\ cw' = [cw EXCEPT ![p][tbl] = res.tab]
              /\ clock' = [clock EXCEPT ![p] =
                              IF res.tab # View(p)[tbl] THEN @ \cup {tbl} ELSE @]
              /\ cpc' = [cpc EXCEPT ![p] = OnOk(step)]
              /\ UNCHANGED cfailed
         ELSE /\ cpc' = [cpc EXCEPT ![p] = OnFail(step)]
              /\ cfailed' = [cfailed EXCEPT ![p] = step]
              /\ UNCHANGED <<cw, clock>>
    /\ UNCHANGED <<cdb, cds, cpks, cintr, nonConc>>

CDropStaging(p) ==
    /\ CExecute(p, "drop_staging", "staging", {}, DropTable(View(p).staging))
    /\ UNCHANGED csrc

CCreateStaging(p) ==
    /\ CExecute(p, "create_staging", "staging", {},
                CreateTable(View(p).staging, cds[p].cols, TRUE))
    /\ UNCHANGED csrc

CCreateTarget(p) ==
    /\ CExecute(p, "create_target", "target", {},
                CreateTable(View(p).target, cds[p].cols, FALSE))
    /\ UNCHANGED csrc

CInsert(p) ==
    /\ CExecute(p, "insert", "staging", {},
                ExecuteMany(View(p).staging, cds[p].cols, cds[p].rows))
    /\ UNCHANGED csrc

\* the MERGE reads the staging table as it is committed by now
CMerge(p) ==
    /\ CExecute(p, "merge", "target", {"staging"},
                Merge(View(p).target, View(p).staging, cpks[p], cds[p].cols))
    /\ csrc' = [csrc EXCEPT ![p] = View(p).staging.rows]

\* conn.commit() of call p: its changes become what the other call sees
CCommit(p, step) ==
    /\ cpc[p] = step
    /\ step \in {"commit1", "commit2"}
    /\ \/ /\ cdb' = View(p)
          /\ clock' = [clock EXCEPT ![p] = {}]
          /\ cintr' = [q \in Procs |->
                          IF q = p THEN (step = "commit2" /\ cintr[p])
                          ELSE cintr[q] \/ "staging" \in clock[p]]
          /\ cpc' = [cpc EXCEPT ![p] = OnOk(step)]
          /\ UNCHANGED cfailed
       \/ /\ cpc' = [cpc EXCEPT ![p] = OnFail(step)]
          /\ cfailed' = [cfailed EXCEPT ![p] = step]
          /\ UNCHANGED <<cdb, clock, cintr>>
    /\ UNCHANGED <<cds, cpks, cw, csrc, nonConc>>

\* except: conn.rollback() of call p
CExcept(p) ==
    /\ cpc[p] = "except"
    /\ clock' = [clock EXCEPT ![p] = {}]
    /\ cpc' = [cpc EXCEPT ![p] = OnOk("except")]
    /\ UNCHANGED <<cdb, cds, cpks, cw, cfailed, cintr, csrc, nonConc>>

\* finally: cursor and connection of call p are closed and the call ends
CFinally(p) ==
    /\ cpc[p] = "cursor_close"
    /\ clock' = [clock EXCEPT ![p] = {}]
    /\ cpc' = [cpc EXCEPT ![p] = "done"]
    /\ UNCHANGED <<cdb, cds, cpks, cw, cfailed, cintr, csrc, nonConc>>

ConcNext ==
    \E p \in Procs :
        \/ \E d \in Datasets, k \in KeySets : CCall(p, d, k)
        \/ CDropStaging(p)
        \/ CCreateStaging(p)
        \/ CCreateTarget(p)
        \/ CInsert(p)
        \/ CCommit(p, "commit1")
        \/ CMerge(p)
        \/ CCommit(p, "commit2")
        \/ CExcept(p)
        \/ CFinally(p)

SpecConc == Init /\ [][ConcNext]_vars

(***************************************************************************)
(* wrap_column (db.py:53-57).  A column name is a sequence of characters.  *)
(***************************************************************************)
MaxLen == 3

Chars == {" ", "/", "-", "(", ")", "_", "A", "b"}

EnergyMWh == <<"E", "n", "e", "r", "g", "y", " ", "(", "M", "W", "h", ")">>

ABC == <<"A", "/", "B", "-", "C">>

\* the column names wrap_column is called with
ColumnNames ==
    UNION {[1 .. n -> Chars] : n \in 0 .. MaxLen} \cup {EnergyMWh, ABC}

\* str.replace(old, new) for a one-character old
RECURSIVE Replace(_, _, _)
Replace(s, old, new) ==
    IF s = <<>> THEN <<>>
    ELSE (IF Head(s) = old THEN new ELSE <<Head(s)>>)
             \o Replace(Tail(s), old, new)

wrap_columnKeepParen(col) ==
    Replace(Replace(Replace(col, " ", <<"_">>), "/", <<"_">>), "-", <<"_">>)

wrap_column(col) ==
    Replace(Replace(Replace(Replace(Replace(col,
        " ", <<"_">>), "/", <<"_">>), "-", <<"_">>), "(", <<>>), ")", <<>>)

WrapCall(col) ==
    /\ wpc = "idle"
    /\ wpc' = "called"
    /\ wcol' = col
    /\ UNCHANGED <<wret, nonWrap>>

WrapReturn ==
    /\ wpc = "called"
    /\ wret' = wrap_column(wcol)
    /\ wpc' = "returned"
    /\ UNCHANGED <<wcol, nonWrap>>

WrapNext ==
    \/ \E col \in ColumnNames : WrapCall(col)
    \/ WrapReturn

SpecWrap == Init /\ [][WrapNext]_vars

(***************************************************************************)
(* The DataFrame on its way from the caller to the engine                  *)
(* (write_to_db, db.py:193-208, and create_table, db.py:66-86).            *)
(* A cell is "v" (a value), "NA" (pd.NA), "NaN" (np.nan) or "None".        *)
(***************************************************************************)
MaxCols == 2

DTypes == {"int64", "int32", "float64", "object", "bool", "datetime64[ns]",
           "datetime64[ns, CET]", "datetime64[ns, UTC]"}

\* the cells a column of a dtype can hold
CellsOf(dtype) ==
    IF dtype = "float64" THEN {"v", "NaN"}
    ELSE IF dtype = "object" THEN {"v", "NA", "NaN"}
    ELSE {"v"}

\* column names as the caller gives them
RawNames == {<<"A">>, <<"B", " ", "c">>, <<"d", "(", "e", ")">>}

\* the DataFrames write_to_db is called with: nc columns with names ns and
\* dtypes ts, nr rows, cells cs
Frame(ns, ts, cs) == [names |-> ns, dtypes |-> ts, cells |-> cs]

NamesOf(nc) ==
    {f \in [1 .. nc -> RawNames] : \A i, j \in 1 .. nc : i # j => f[i] # f[j]}

WellTyped(df) ==
    \A c \in DOMAIN df.names : \A i \in DOMAIN df.cells[c] :
        df.cells[c][i] \in CellsOf(df.dtypes[c])

\* dtype_mapping.get(str(dtype), 'VARCHAR(255)')
dtype_mapping(dtype) ==
    CASE dtype \in {"int64", "int32"} -> "INT"
      [] dtype = "float64" -> "FLOAT"
      [] dtype = "object" -> "VARCHAR(255)"
      [] dtype \in {"datetime64[ns]", "datetime64"} -> "DATETIME"
      [] dtype = "datetime64[ns, CET]" -> "DATETIMEOFFSET(7)"
      [] OTHER -> "VARCHAR(255)"

\* the column definitions create_table builds from df.dtypes
ColumnDefinitions(df) ==
    [c \in DOMAIN df.names |->
        [col |-> df.names[c], type |-> dtype_mapping(df.dtypes[c]),
         null |-> TRUE]]

\* df.replace({k: None}): a new DataFrame in which the cells matching k are
\* None; a column that is not of dtype object and gets a None becomes object
DfReplace(df, matched) ==
    [names |-> df.names,
     dtypes |-> [c \in DOMAIN df.names |->
                    IF \E i \in DOMAIN df.cells[c] : df.cells[c][i] \in matched
                    THEN "object" ELSE df.dtypes[c]],
     cells |-> [c \in DOMAIN df.names |->
                   [i \in DOMAIN df.cells[c] |->
                       IF df.cells[c][i] \in matched THEN "None"
                       ELSE df.cells[c][i]]]]

\* the cells a replace of sentinel k matches: k itself or, depending on the
\* pandas version, every missing value
Matched(k, wide) == IF wide THEN {"NA", "NaN"} ELSE {k}

NormalizeNothing(df, wide) == df

\* df.replace({pd.NA: None}) and then df.replace({np.nan: None})
Normalize(df, wide) ==
    DfReplace(DfReplace(df, Matched("NA", wide)), Matched("NaN", wide))

\* df.to_numpy().tolist()
ToList(df) ==
    IF df.cells = <<>> THEN <<>>
    ELSE [i \in DOMAIN df.cells[1] |->
             [c \in DOMAIN df.names |-> df.cells[c][i]]]

PrepCall(df) ==
    /\ ppc = "idle"
    /\ WellTyped(df)
    /\ ppc' = "sanitize"
    /\ pin' = df
    /\ pdf' = df
    /\ ploc' = df
    /\ UNCHANGED <<pddl, psent, pout, nonPrep>>

\* db.py:194-195: df.columns = sql_columns renames the columns of the object
\* the caller passed
PrepSanitize ==
    /\ ppc = "sanitize"
    /\ pdf' = [pdf EXCEPT !.names =
                  [c \in DOMAIN pdf.names |-> wrap_column(pdf.names[c])]]
    /\ ploc' = pdf'
    /\ ppc' = "replace"
    /\ UNCHANGED <<pin, pddl, psent, pout, nonPrep>>

\* db.py:198-199: replace returns a new object, bound to the local name only
PrepReplace ==
    /\ ppc = "replace"
    /\ \E wide \in BOOLEAN : ploc' = Normalize(ploc, wide)
    /\ ppc' = "create"
    /\ UNCHANGED <<pin, pdf, pddl, psent, pout, nonPrep>>

\* db.py:202-203: both create_table calls build the same column definitions
PrepCreateTables ==
    /\ ppc = "create"
    /\ pddl' = ColumnDefinitions(ploc)
    /\ ppc' = "send"
    /\ UNCHANGED <<pin, pdf, ploc, psent, pout, nonPrep>>

\* db.py:208
PrepSend ==
    /\ ppc = "send"
    /\ psent' = ToList(ploc)
    /\ ppc' = "end"
    /\ UNCHANGED <<pin, pdf, ploc, pddl, pout, nonPrep>>

\* a statement of the try block raises
PrepFail ==
    /\ ppc \in {"create", "send"}
    /\ ppc' = "done"
    /\ pout' = "raised"
    /\ UNCHANGED <<pin, pdf, ploc, pddl, psent, nonPrep>>

\* the rest of the call: it returns, or raises
PrepEnd ==
    /\ ppc = "end"
    /\ ppc' = "done"
    /\ pout' \in {"returned", "raised"}
    /\ UNCHANGED <<pin, pdf, ploc, pddl, psent, nonPrep>>

\* a caller calls write_to_db with some DataFrame
PrepStart ==
    /\ ppc = "idle"
    /\ \E nc \in 1 .. MaxCols, nr \in 1 .. MaxRows :
          \E ns \in NamesOf(nc), ts \in [1 .. nc -> DTypes] :
              \E cs \in [1 .. nc -> [1 .. nr -> {"v", "NA", "NaN"}]] :
                  PrepCall(Frame(ns, ts, cs))

PrepNext ==
    \/ PrepStart
    \/ PrepSanitize
    \/ PrepReplace
    \/ PrepCreateTables
    \/ PrepSend
    \/ PrepFail
    \/ PrepEnd

SpecPrep == Init /\ [][PrepNext]_vars

(***************************************************************************)
(* Auxiliary definitions of the properties.                                *)
(***************************************************************************)
HasStmt(k) == \E i \in DOMAIN stmts : stmts[i] = k

Failed == pc = "done" /\ exc

Returned == pc = "done" /\ ~exc

\* the call raised out of its try block: a statement or a commit failed
FailedInTry == pc = "done" /\ failed \in TrySteps

\* no two rows of the dataset join each other on the key
KeysUnique(d, k) ==
    \A i, j \in DOMAIN d.rows :
        i # j => ~OnCondition(d.rows[i], d.rows[j], k)

\* the target rows of the call's start that join dataset row s on the key
Joined(s) == {t \in BagToSet(db0.target.rows) : OnCondition(t, s, pks)}

\* dataset row s laid out on the target's columns
InFull(s) == [c \in db.target.cols |-> IF c \in ds.cols THEN s[c] ELSE NULL]

\* target row t with its non-key columns taken from dataset row s
Overridden(t, s) ==
    [c \in db.target.cols |-> IF c \in ds.cols \ pks THEN s[c] ELSE t[c]]

\* the order of the orchestrator states, and the failure exits
Allowed ==
    {<<"INIT", "STAGING_ENSURED">>, <<"STAGING_ENSURED", "TARGET_ENSURED">>,
     <<"TARGET_ENSURED", "BULK_LOADED">>, <<"BULK_LOADED", "MERGED">>,
     <<"MERGED", "COMMITTED">>}
    \cup {<<st, "ROLLED_BACK">> : st \in {"INIT", "STAGING_ENSURED",
              "TARGET_ENSURED", "BULK_LOADED", "MERGED"}}

(***************************************************************************)
(* Properties.                                                             *)
(***************************************************************************)
\* C1: when a call raises because a DDL statement, the bulk load, the merge
\* or a commit failed, the committed target table holds exactly the rows it
\* held when the call started.
C1_TargetRowsKeptOnFailure ==
    FailedInTry => db.target.rows = db0.target.rows

\* C1 witness: a call whose merge was accepted on a non-empty batch and whose
\* final commit then failed has ended by raising.
C1_Witness ==
    /\ Failed
    /\ ds.rows # <<>>
    /\ Len(stmts) = 8
    /\ stmts[6] = "merge" /\ stmts[7] = "commit" /\ stmts[8] = "rollback"

\* C2: when a call raises because a step of its try block failed, the
\* committed database (staging and target tables) equals the committed
\* database of the call's start.
C2_AllEffectsReverted ==
    FailedInTry => db = db0

\* C3: after a call that returned normally on a dataset with unique keys,
\* every target row joined by a dataset row carries that row's non-key
\* values, every dataset row that joined nothing is present in full, every
\* target row no dataset row joined is still there, and nothing else is.
C3_UpsertOverridesOnKey ==
    (Returned /\ KeysUnique(ds, pks)) =>
        LET D == {ds.rows[i] : i \in DOMAIN ds.rows}
        IN  /\ \A s \in D : \A t \in Joined(s) :
                  BagIn(Overridden(t, s), db.target.rows)
            /\ \A s \in D : Joined(s) = {} => BagIn(InFull(s), db.target.rows)
            /\ \A t \in BagToSet(db0.target.rows) :
                  (\A s \in D : t \notin Joined(s)) =>
                      /\ BagIn(t, db.target.rows)
                      /\ CopiesIn(t, db.target.rows) >= CopiesIn(t, db0.target.rows)
            /\ BagCardinality(db.target.rows) =
                  BagCardinality(db0.target.rows)
                  + Cardinality({i \in DOMAIN ds.rows : Joined(ds.rows[i]) = {}})

\* C3 witness: a call has returned normally after it updated a row to new
\* values, inserted a row and left a third row alone.
C3_Witness ==
    /\ Returned
    /\ KeysUnique(ds, pks)
    /\ \E i \in DOMAIN ds.rows : \E t \in Joined(ds.rows[i]) :
           Overridden(t, ds.rows[i]) # t
    /\ \E i \in DOMAIN ds.rows : Joined(ds.rows[i]) = {}
    /\ \E t \in BagToSet(db0.target.rows) :
           \A i \in DOMAIN ds.rows : t \notin Joined(ds.rows[i])

\* C4: a call that repeats the dataset and the keys of the call before it,
\* which returned normally, leaves the target as that call left it.
C4_Idempotent ==
    (Returned /\ rep) => db.target = db0.target

\* C5: within a call the orchestrator states change only along INIT,
\* STAGING_ENSURED, TARGET_ENSURED, BULK_LOADED, MERGED, COMMITTED or to
\* ROLLED_BACK, and once COMMITTED or ROLLED_BACK is reached the state stays
\* and no further statement is submitted.
C5_StateOrder ==
    [][pc \notin {"idle", "done"} =>
          /\ state' = state \/ <<state, state'>> \in Allowed
          /\ state \in {"COMMITTED", "ROLLED_BACK"} =>
                 state' = state /\ stmts' = stmts]_vars

\* C5 witness: a call has ended in COMMITTED.
C5_Witness ==
    pc = "done" /\ state = "COMMITTED"

\* C6 as stated: a call in which any step failed (connection, sanitization
\* and normalization included) has issued a rollback on its connection and
\* ends by raising.
C6_RollbackOnEveryFailure ==
    Failed => HasStmt("rollback")

\* C6 amended: a call in which a step of the try block failed has issued a
\* rollback as its last statement and ends by raising, and a call returns
\* normally only when every statement up to the final commit succeeded.
C6_RollbackOnTryFailure ==
    /\ FailedInTry => (stmts # <<>> /\ stmts[Len(stmts)] = "rollback")
    /\ Returned =>
           /\ state = "COMMITTED"
           /\ stmts = <<"drop_staging", "create_staging", "create_target",
                        "insert", "commit", "merge", "commit">>

\* C6 witness: a call whose merge failed has ended.
C6_Witness ==
    pc = "done" /\ failed = "merge" /\ HasStmt("rollback")

\* C7: when a call ends, no connection and no cursor it opened is open.
C7_ResourcesReleased ==
    pc = "done" => conn # "open" /\ cur # "open"

\* C8: within a call no statement is submitted twice, and after a failed
\* statement nothing but the rollback is submitted.
C8_EachStatementOnce ==
    /\ \A i, j \in DOMAIN stmts : i # j => stmts[i] # stmts[j]
    /\ \A i \in DOMAIN stmts : stmts[i] = "rollback" => i = Len(stmts)

\* C9: create_table(staging=False) leaves an existing target as it is, and
\* the committed target, once it exists, never loses its existence, changes
\* its columns or holds fewer rows.
C9_TargetAdditiveOnly ==
    [][/\ (pc = "create_target" /\ tx.target.exists) => tx'.target = tx.target
       /\ db.target.exists =>
              /\ db'.target.exists
              /\ db'.target.cols = db.target.cols
              /\ BagCardinality(db'.target.rows)
                     >= BagCardinality(db.target.rows)]_vars

\* C9 witness: create_table(staging=False) has run for a dataset whose
\* columns differ from those of the existing, non-empty target.
C9_Witness ==
    /\ pc = "insert"
    /\ db0.target.exists
    /\ db0.target.rows # EmptyBag
    /\ db0.target.cols # ds.cols

\* C10: when the merge is about to execute, the staging table the
\* connection sees has the dataset's columns and exactly the dataset's rows.
C10_StagingIsTheBatch ==
    pc = "merge" =>
        /\ tx.staging.exists
        /\ tx.staging.cols = ds.cols
        /\ tx.staging.rows = SeqToBag(ds.rows)

\* C10 witness: the merge is about to execute in a call that found a staging
\* table with other rows left by an earlier call.
C10_Witness ==
    /\ pc = "merge"
    /\ db0.staging.exists
    /\ db0.staging.rows # EmptyBag
    /\ db0.staging.rows # SeqToBag(ds.rows)

\* the batched insert or its commit raised: the except clause has run
BatchFailed == blog # <<>>

\* C11: once the batched insert has failed, the rows are inserted one at a
\* time in their original order up to and including the first row the
\* engine rejects and no further; that row's index and values are the last
\* thing logged, already before the raise; and the call ends by raising.
C11_FallbackStopsAtFirstBadRow ==
    (bpc \in {"raise", "done"} /\ BatchFailed) =>
        LET k == FirstBad(bdata, bbad)
            n == IF k <= Len(bdata) THEN k ELSE Len(bdata)
        IN  /\ btried = [j \in 1 .. n |-> j]
            /\ k <= Len(bdata) =>
                  /\ blog[Len(blog)].kind = "row_error"
                  /\ blog[Len(blog)].idx = k - 1
                  /\ blog[Len(blog)].row = bdata[k]
            /\ bpc = "done" => bout = "raised"

\* C11 witness: a call whose batched insert failed has raised after the
\* fallback met a rejected row that is not the last row of the data.
C11_Witness ==
    /\ bpc = "done"
    /\ bout = "raised"
    /\ bbad # {}
    /\ FirstBad(bdata, bbad) < Len(bdata)

\* C12: a write_to_db call whose bulk load the engine rejected has inserted
\* rows one at a time and has logged the offending row's index and values
\* when it ends by raising.
C12_RowDiagnosedInWriteToDb ==
    (pc = "done" /\ failed = "insert") =>
        /\ HasStmt("insert_row")
        /\ \E i \in DOMAIN Logged : Logged[i].kind = "row_error"

\* C13: when a call ends, by return or by exception, the committed database
\* holds no staging table.
C13_StagingDestroyed ==
    pc = "done" => ~db.staging.exists

\* the MERGE of call p was accepted by the engine
CMerged(p) ==
    /\ cpc[p] \in {"commit2", "except", "cursor_close", "done"}
    /\ cfailed[p] \in {"none", "commit2"}

\* C14: the code takes no lock on the shared staging table, so the only
\* thing that makes the merge of a call read exactly the rows the call
\* loaded is that no other call committed a change of the staging table
\* between this call's first commit and its merge; such an interleaving
\* exists (C14_Witness).
C14_MergeReadsOwnBatchUnlessInterleaved ==
    \A p \in Procs :
        CMerged(p) => (csrc[p] = SeqToBag(cds[p].rows) \/ cintr[p])

\* both calls returned normally, call p merged rows it did not load, and a
\* row of its dataset that joins no row of the other dataset is not in the
\* target
C14_Witness ==
    \E p \in Procs : \E q \in Procs \ {p} :
        /\ cpc = [r \in Procs |-> "done"]
        /\ cfailed = [r \in Procs |-> "none"]
        /\ cds[p].cols = cds[q].cols
        /\ csrc[p] # SeqToBag(cds[p].rows)
        /\ \E i \in DOMAIN cds[p].rows :
              /\ ~BagIn(cds[p].rows[i], cdb.target.rows)
              /\ \A j \in DOMAIN cds[q].rows :
                    ~OnCondition(cds[p].rows[i], cds[q].rows[j], cpks[q])

\* what the sanitized name has in the place of character c
Sanitized(c) ==
    IF c \in {" ", "/", "-"} THEN <<"_">>
    ELSE IF c \in {"(", ")"} THEN <<>>
    ELSE <<c>>

RECURSIVE EachSanitized(_)
EachSanitized(s) ==
    IF s = <<>> THEN <<>> ELSE Sanitized(Head(s)) \o EachSanitized(Tail(s))

\* C15: wrap_column returns the name with each space, '/' and '-' replaced
\* by one underscore and each '(' and ')' removed, every other character
\* kept in its place; "Energy (MWh)" gives "Energy_MWh" and "A/B-C" gives
\* "A_B_C".
C15_WrapColumnSanitizes ==
    wpc = "returned" =>
        /\ wret = EachSanitized(wcol)
        /\ wcol = EnergyMWh =>
              wret = <<"E", "n", "e", "r", "g", "y", "_", "M", "W", "h">>
        /\ wcol = ABC => wret = <<"A", "_", "B", "_", "C">>

\* a name with a character of each kind has been sanitized
C15_Witness ==
    /\ wpc = "returned"
    /\ wcol = <<"A", " ", ")">>
    /\ wret = <<"A", "_">>

\* the time-zone-aware date-time dtypes
TzAware == {"datetime64[ns, CET]", "datetime64[ns, UTC]"}

Sentinels == {"NA", "NaN"}

\* C16: every column definition is NULL-able and has the type the fixed
\* table gives for the dtype the column was declared with (int64 and int32
\* INT, float64 FLOAT, object VARCHAR(255), datetime64[ns] DATETIME,
\* unrecognized VARCHAR(255)), whatever the cells of the column hold.
C16_DdlTypeFromDeclaredDtype ==
    pddl # <<>> =>
        \A c \in DOMAIN pddl :
            /\ pddl[c].null
            /\ pin.dtypes[c] \notin TzAware =>
                  pddl[c].type = dtype_mapping(pin.dtypes[c])

\* C17: every column declared with a time-zone-aware date-time dtype has
\* the type DATETIMEOFFSET(7) in the column definitions.
C17_TzAwareIsDatetimeOffset ==
    pddl # <<>> =>
        \A c \in DOMAIN pddl :
            pin.dtypes[c] \in TzAware => pddl[c].type = "DATETIMEOFFSET(7)"

\* C18: in the rows handed to executemany every cell that held pd.NA or
\* np.nan in the caller's DataFrame is None (SQL NULL), and every other
\* cell is the caller's value.
C18_SentinelsSentAsNull ==
    psent # <<>> =>
        \A i \in DOMAIN psent : \A c \in DOMAIN psent[i] :
            psent[i][c] = IF pin.cells[c][i] \in Sentinels THEN "None"
                          ELSE pin.cells[c][i]

\* a call returned whose DataFrame held pd.NA in an object column and np.nan
\* in a float64 column
C18_Witness ==
    /\ pout = "returned"
    /\ \E c \in DOMAIN pin.names : \E i \in DOMAIN pin.cells[c] :
          pin.dtypes[c] = "object" /\ pin.cells[c][i] = "NA"
    /\ \E c \in DOMAIN pin.names : \E i \in DOMAIN pin.cells[c] :
          pin.dtypes[c] = "float64" /\ pin.cells[c][i] = "NaN"
    /\ \E i \in DOMAIN psent : \A c \in DOMAIN psent[i] : psent[i][c] = "None"

\* C19: when the call has ended, the caller's DataFrame has the column
\* names, in the order, and the cells other than sentinels that it was
\* passed with.
C19_CallerFrameKept ==
    ppc = "done" =>
        /\ pdf.names = pin.names
        /\ pdf.dtypes = pin.dtypes
        /\ \A c \in DOMAIN pin.names : \A i \in DOMAIN pin.cells[c] :
              pin.cells[c][i] \notin Sentinels =>
                  pdf.cells[c][i] = pin.cells[c][i]

\* the positions of the commits among the statements of the call
Commits == {i \in DOMAIN stmts : stmts[i] = "commit"}

\* C20: a call that reaches COMMITTED has committed exactly twice, right
\* after the bulk load and right after the merge; when the merge or the
\* second commit raises, the committed staging table holds the batch, the
\* committed target table exists (created by this call with the batch's
\* columns if it did not exist) and holds the rows it held at the start.
C20_TwoCommitsFirstSurvives ==
    /\ (pc = "done" /\ state = "COMMITTED") =>
          /\ Cardinality(Commits) = 2
          /\ \A i \in Commits : stmts[i - 1] \in {"insert", "merge"}
          /\ \E i, j \in Commits : stmts[i - 1] = "insert" /\ stmts[j - 1] = "merge"
    /\ (pc = "done" /\ failed \in {"merge", "commit2"}) =>
          /\ db.staging.exists
          /\ db.staging.cols = ds.cols
          /\ db.staging.rows = SeqToBag(ds.rows)
          /\ db.target.exists
          /\ db.target.rows = db0.target.rows
          /\ db.target.cols = IF db0.target.exists THEN db0.target.cols
                              ELSE ds.cols

\* the merge raised in a call that created the target table: the call has
\* rolled back and ended, the batch is in the staging table and the target
\* table exists, empty
C20_Witness ==
    /\ pc = "done"
    /\ failed = "merge"
    /\ HasStmt("rollback")
    /\ ~db0.target.exists
    /\ db.target.exists
    /\ db.target.rows = EmptyBag
    /\ db.staging.rows # EmptyBag

\* C21: for every non-empty primary_keys within the DataFrame's columns, the
\* set of all columns included, the MERGE statement is one the engine can
\* run: with the staging table loaded, a target table that has the
\* DataFrame's columns and no target row joined by two staging rows, it
\* does not fail.
C21_MergeDefinedForEveryKey ==
    (/\ pc = "merge"
     /\ pks # {}
     /\ pks \subseteq ds.cols
     /\ tx.target.exists
     /\ ds.cols \subseteq tx.target.cols
     /\ \A t \in BagToSet(tx.target.rows) :
           Matches(t, tx.staging.rows, pks) <= 1)
        => Merge(tx.target, tx.staging, pks, ds.cols).ok

\* the calls made on the connection include op
HasOp(op) == \E i \in DOMAIN bops : bops[i] = op

\* the rows of data the fallback loop inserted
FallbackRows ==
    LET k == FirstBad(bdata, bbad)
    IN  SubSeq(bdata, 1, IF k <= Len(bdata) THEN k - 1 ELSE Len(bdata))

\* C22: bulk_insert_to_staging commits exactly when executemany succeeded;
\* when executemany raised, the call raises that error, also when every
\* row of the fallback was inserted, it issues no commit and no rollback,
\* and the rows of the fallback stay in the open transaction, none of them
\* durable.
C22_CommitIffBatchSucceeded ==
    bpc = "done" =>
        /\ HasOp("commit") <=> berr # "executemany"
        /\ berr = "executemany" =>
              /\ bout = "raised"
              /\ ~HasOp("rollback")
              /\ bsaved = <<>>
              /\ \E n \in 0 .. Len(bdata) :
                    bstaged = SubSeq(bdata, 1, n) \o FallbackRows

\* executemany raised although the engine rejects no row, the fallback
\* inserted every row, and the call has raised with the rows uncommitted
C22_Witness ==
    /\ bpc = "done"
    /\ berr = "executemany"
    /\ bbad = {}
    /\ bdata # <<>>
    /\ btried = [j \in 1 .. Len(bdata) |-> j]
    /\ bout = "raised"
    /\ bstaged # <<>>
    /\ bsaved = <<>>

====
